---- MODULE Spec2Model ----
(***************************************************************************)
(* A model of SpendingAnalyzer (src/spending_analyzer.py): the CSV schema  *)
(* detection of read_csv, the keyword categorisation, the merge / dedup /  *)
(* sort of process_files and the aggregates of generate_insights.          *)
(*                                                                         *)
(* Text is a sequence of one-character strings, so that str.lower, the     *)
(* substring test and the parsers are computed character by character.     *)
(* A cell of a DataFrame is a record: a string, a number or NaN (NaT for   *)
(* a date).  Amounts are counted in hundredths, dates are the integer      *)
(* YYYYMMDD.                                                               *)
(***************************************************************************)
EXTENDS Integers, Sequences, FiniteSets, TLC

VARIABLES data, op, arg, outcome, ret, printed

vars == <<data, op, arg, outcome, ret, printed>>

----------------------------------------------------------------------------
(* Bounds of the model.                                                    *)

\* the longest list of paths handed to process_files
MaxFiles == 2

\* the longest description drawn from DescAlphabet for categorize_transaction
MaxDescLen == 3

----------------------------------------------------------------------------
(* Cells and text.                                                         *)

Str(s) == [t |-> "str", s |-> s, n |-> 0]
Num(n) == [t |-> "num", s |-> <<>>, n |-> n]
NaN == [t |-> "nan", s |-> <<>>, n |-> 0]

Range(f) == {f[i] : i \in DOMAIN f}

UpperCase == <<"A","B","C","D","E","F","G","H","I","J","K","L","M","N","O","P","Q","R","S","T","U","V","W","X","Y","Z">>
LowerCase == <<"a","b","c","d","e","f","g","h","i","j","k","l","m","n","o","p","q","r","s","t","u","v","w","x","y","z">>
Digits == <<"0","1","2","3","4","5","6","7","8","9">>

\* the characters of the model's texts, in code-point order
CharOrder == <<" ","#","$",",","-",".","0","1","2","3","4","5","6","7","8","9","A","B","C","D","E","F","G","H","I","J","K","L","M","N","O","P","Q","R","S","T","U","V","W","X","Y","Z","a","b","c","d","e","f","g","h","i","j","k","l","m","n","o","p","q","r","s","t","u","v","w","x","y","z">>

IndexOf(c, seq) == CHOOSE i \in 1..Len(seq) : seq[i] = c

IsDigit(c) == c \in Range(Digits)
DigitVal(c) == IndexOf(c, Digits) - 1

\* a sequence given as a function, written out as a tuple
Tuple(f) == <<>> \o f

\* str.lower()
lower(s) ==
    Tuple([i \in 1..Len(s) |->
        IF s[i] \in Range(UpperCase) THEN LowerCase[IndexOf(s[i], UpperCase)] ELSE s[i]])

\* Python's  keyword in description
Contains(keyword, s) ==
    \E i \in 0..(Len(s) - Len(keyword)) : \A j \in 1..Len(keyword) : s[i + j] = keyword[j]

\* Python's ordering of str: by code point, a proper prefix first
RECURSIVE StrLess(_, _)
StrLess(a, b) ==
    IF b = <<>> THEN FALSE
    ELSE IF a = <<>> THEN TRUE
    ELSE IF Head(a) = Head(b) THEN StrLess(Tail(a), Tail(b))
    ELSE IndexOf(Head(a), CharOrder) < IndexOf(Head(b), CharOrder)

RECURSIVE DigitsVal(_)
DigitsVal(s) ==
    IF s = <<>> THEN 0
    ELSE DigitsVal(SubSeq(s, 1, Len(s) - 1)) * 10 + DigitVal(s[Len(s)])

AllDigits(s) == s # <<>> /\ \A i \in 1..Len(s) : IsDigit(s[i])

----------------------------------------------------------------------------
(* categorize_transaction                                                  *)

\* self.categories with utilities declared before transport
categories_utilities_first == <<
    [name |-> "groceries", keywords |-> <<
        <<"g","r","o","c","e","r","y">>, <<"f","o","o","d">>, <<"m","a","r","k","e","t">>, <<"t","r","a","d","e","r">>, <<"w","h","o","l","e"," ","f","o","o","d","s">> >>],
    [name |-> "dining", keywords |-> <<
        <<"r","e","s","t","a","u","r","a","n","t">>, <<"c","a","f","e">>, <<"c","o","f","f","e","e">>, <<"d","o","o","r","d","a","s","h">>, <<"u","b","e","r"," ","e","a","t","s">> >>],
    [name |-> "utilities", keywords |-> <<
        <<"e","l","e","c","t","r","i","c">>, <<"w","a","t","e","r">>, <<"g","a","s">>, <<"i","n","t","e","r","n","e","t">>, <<"p","h","o","n","e">> >>],
    [name |-> "transport", keywords |-> <<
        <<"u","b","e","r">>, <<"l","y","f","t">>, <<"t","a","x","i">>, <<"t","r","a","n","s","i","t">>, <<"g","a","s">>, <<"f","u","e","l">> >>],
    [name |-> "shopping", keywords |-> <<
        <<"a","m","a","z","o","n">>, <<"t","a","r","g","e","t">>, <<"w","a","l","m","a","r","t">>, <<"s","t","o","r","e">> >>],
    [name |-> "entertainment", keywords |-> <<
        <<"n","e","t","f","l","i","x">>, <<"s","p","o","t","i","f","y">>, <<"m","o","v","i","e">>, <<"t","h","e","a","t","e","r">> >>],
    [name |-> "health", keywords |-> <<
        <<"p","h","a","r","m","a","c","y">>, <<"d","o","c","t","o","r">>, <<"m","e","d","i","c","a","l">>, <<"f","i","t","n","e","s","s">> >>]
    >>

\* self.categories: a dict, iterated in insertion order
categories == <<
    [name |-> "groceries", keywords |-> <<
        <<"g","r","o","c","e","r","y">>, <<"f","o","o","d">>, <<"m","a","r","k","e","t">>, <<"t","r","a","d","e","r">>, <<"w","h","o","l","e"," ","f","o","o","d","s">> >>],
    [name |-> "dining", keywords |-> <<
        <<"r","e","s","t","a","u","r","a","n","t">>, <<"c","a","f","e">>, <<"c","o","f","f","e","e">>, <<"d","o","o","r","d","a","s","h">>, <<"u","b","e","r"," ","e","a","t","s">> >>],
    [name |-> "transport", keywords |-> <<
        <<"u","b","e","r">>, <<"l","y","f","t">>, <<"t","a","x","i">>, <<"t","r","a","n","s","i","t">>, <<"g","a","s">>, <<"f","u","e","l">> >>],
    [name |-> "shopping", keywords |-> <<
        <<"a","m","a","z","o","n">>, <<"t","a","r","g","e","t">>, <<"w","a","l","m","a","r","t">>, <<"s","t","o","r","e">> >>],
    [name |-> "utilities", keywords |-> <<
        <<"e","l","e","c","t","r","i","c">>, <<"w","a","t","e","r">>, <<"g","a","s">>, <<"i","n","t","e","r","n","e","t">>, <<"p","h","o","n","e">> >>],
    [name |-> "entertainment", keywords |-> <<
        <<"n","e","t","f","l","i","x">>, <<"s","p","o","t","i","f","y">>, <<"m","o","v","i","e">>, <<"t","h","e","a","t","e","r">> >>],
    [name |-> "health", keywords |-> <<
        <<"p","h","a","r","m","a","c","y">>, <<"d","o","c","t","o","r">>, <<"m","e","d","i","c","a","l">>, <<"f","i","t","n","e","s","s">> >>]
    >>

\* the loop of categorize_transaction from the i-th category on
RECURSIVE categorize_from(_, _)
categorize_from(description, i) ==
    IF i > Len(categories) THEN "other"
    ELSE IF \E k \in 1..Len(categories[i].keywords) :
                Contains(categories[i].keywords[k], description)
         THEN categories[i].name
         ELSE categorize_from(description, i + 1)

\* lines 62-67 for a str; a float (NaN) has no .lower()
categorize(description) == categorize_from(lower(description), 1)

----------------------------------------------------------------------------
(* The parsers of read_csv.                                                *)

\* pd.to_datetime of one string: the ISO form YYYY-MM-DD parses, text that
\* does not look like a date does not (the model's texts are one or the other)
IsISODate(s) ==
    /\ Len(s) = 10
    /\ s[5] = "-" /\ s[8] = "-"
    /\ \A i \in {1, 2, 3, 4, 6, 7, 9, 10} : IsDigit(s[i])
    /\ DigitsVal(SubSeq(s, 6, 7)) \in 1..12
    /\ DigitsVal(SubSeq(s, 9, 10)) \in 1..31

DateVal(s) ==
    DigitsVal(SubSeq(s, 1, 4)) * 10000 + DigitsVal(SubSeq(s, 6, 7)) * 100
        + DigitsVal(SubSeq(s, 9, 10))

\* pd.to_datetime(column): raises on a string that is no date, NaN becomes NaT
to_datetime_ok(cells) ==
    \A i \in 1..Len(cells) : cells[i].t = "str" => IsISODate(cells[i].s)

to_datetime(cells) ==
    Tuple([i \in 1..Len(cells) |->
        IF cells[i].t = "str" THEN Num(DateVal(cells[i].s)) ELSE NaN])

\* the regular expression [\d\.\-\$] of the amount scan, as str.contains uses
\* it: one such character anywhere in the string
contains_amount_char(s) ==
    \E i \in 1..Len(s) : IsDigit(s[i]) \/ s[i] \in {".", "-", "$"}

\* .str.replace('[\$,]', '', regex=True)
strip_currency(s) == SelectSeq(s, LAMBDA c : c \notin {"$", ","})

\* the decimal literals pd.to_numeric accepts, up to two decimals:
\* [-]digits[.d[d]]
IsNumber(s) ==
    LET u == IF s # <<>> /\ Head(s) = "-" THEN Tail(s) ELSE s
        dots == {i \in 1..Len(u) : u[i] = "."}
    IN  IF dots = {} THEN AllDigits(u)
        ELSE /\ Cardinality(dots) = 1
             /\ LET d == CHOOSE i \in dots : TRUE
                IN  /\ AllDigits(SubSeq(u, 1, d - 1))
                    /\ AllDigits(SubSeq(u, d + 1, Len(u)))
                    /\ Len(u) - d <= 2

\* its value in hundredths
NumberVal(s) ==
    LET neg == s # <<>> /\ Head(s) = "-"
        u == IF neg THEN Tail(s) ELSE s
        dots == {i \in 1..Len(u) : u[i] = "."}
        d == IF dots = {} THEN Len(u) + 1 ELSE CHOOSE i \in dots : TRUE
        frac == SubSeq(u, d + 1, Len(u))
        cents == IF Len(frac) = 0 THEN 0
                 ELSE IF Len(frac) = 1 THEN DigitVal(frac[1]) * 10
                 ELSE DigitsVal(frac)
        v == DigitsVal(SubSeq(u, 1, d - 1)) * 100 + cents
    IN  IF neg THEN 0 - v ELSE v

\* pd.to_numeric(column.astype(str).str.replace('[\$,]', '')): a number prints
\* and parses back to itself, NaN prints as "nan" and parses to NaN
to_numeric_ok(cells) ==
    \A i \in 1..Len(cells) :
        cells[i].t = "str" => IsNumber(strip_currency(cells[i].s))

to_numeric(cells) ==
    Tuple([i \in 1..Len(cells) |->
        IF cells[i].t = "str" THEN Num(NumberVal(strip_currency(cells[i].s)))
        ELSE cells[i]])

----------------------------------------------------------------------------
(* read_csv: the schema detection.  A table is the sequence of its columns *)
(* [name, cells], as pd.read_csv loads them.                               *)

\* the dtype pd.read_csv infers: object for a column holding text (and for
\* the columns of a table without rows), a numeric dtype otherwise
dtype(col) ==
    IF col.cells = <<>> \/ \E i \in 1..Len(col.cells) : col.cells[i].t = "str"
    THEN "object"
    ELSE "float64"

\* lines 31-38: the first object column that pd.to_datetime accepts
is_date_column(col) == dtype(col) = "object" /\ to_datetime_ok(col.cells)

\* lines 42-44: a numeric column, or an object column whose every string
\* contains a character of the class (NaN cells are skipped by .all())
is_amount_column(col) ==
    \/ dtype(col) \in {"float64", "int64"}
    \/ /\ dtype(col) = "object"
       /\ \A i \in 1..Len(col.cells) :
            col.cells[i].t = "str" => contains_amount_char(col.cells[i].s)

\* the scan stops at the first hit (break); 0 stands for None
FirstColumn(hits) ==
    IF hits = {} THEN 0 ELSE CHOOSE i \in hits : \A j \in hits : i <= j

date_col(df) == FirstColumn({i \in 1..Len(df) : is_date_column(df[i])})
amount_col(df) == FirstColumn({i \in 1..Len(df) : is_amount_column(df[i])})

\* df.select_dtypes(include=['object']).iloc[:, 0]
description_col(df) == FirstColumn({i \in 1..Len(df) : dtype(df[i]) = "object"})

NoCategory == ""

\* lines 52-56: the standardized frame, one row per line of the file
standardize(df) ==
    LET dates == to_datetime(df[date_col(df)].cells)
        descs == df[description_col(df)].cells
        amounts == to_numeric(df[amount_col(df)].cells)
    IN  Tuple([i \in 1..Len(dates) |->
            [date |-> dates[i], description |-> descs[i], amount |-> amounts[i],
             category |-> NoCategory]])

\* read_csv past line 24, on the table pd.read_csv loaded
read_table(df) ==
    IF date_col(df) = 0 \/ amount_col(df) = 0
    THEN [ok |-> FALSE, error |-> "ValueError: Could not identify date and amount columns",
          date_col |-> "", amount_col |-> "", rows |-> <<>>]
    ELSE IF ~ to_numeric_ok(df[amount_col(df)].cells)
    THEN [ok |-> FALSE, error |-> "ValueError: Unable to parse string",
          date_col |-> df[date_col(df)].name, amount_col |-> df[amount_col(df)].name,
          rows |-> <<>>]
    ELSE [ok |-> TRUE, error |-> "",
          date_col |-> df[date_col(df)].name, amount_col |-> df[amount_col(df)].name,
          rows |-> standardize(df)]

----------------------------------------------------------------------------
(* The files of the model.                                                 *)

Col(name, cells) == [name |-> name, cells |-> cells]

\* bank statements with their columns in several layouts
StatementFiles ==
    \* amount, description, date: rows in date order
    ("bankA.csv" :> <<
        Col("Amount", <<Num(4520), Num(3000)>>),
        Col("Description", <<Str(<<"T","r","a","d","e","r"," ","J","o","e","s">>), Str(<<"S","h","e","l","l"," ","G","a","s">>)>>),
        Col("Date", <<Str(<<"2","0","2","4","-","0","1","-","0","5">>), Str(<<"2","0","2","4","-","0","1","-","1","0">>)>>) >>)
    \* currency-formatted amounts; the later date first; shares a row with bankA
 @@ ("bankB.csv" :> <<
        Col("Payee", <<Str(<<"N","e","t","f","l","i","x">>), Str(<<"T","r","a","d","e","r"," ","J","o","e","s">>)>>),
        Col("Debit", <<Str(<<"$","1","5",".","9","9">>), Str(<<"$","4","5",".","2","0">>)>>),
        Col("Posted", <<Str(<<"2","0","2","4","-","0","2","-","0","1">>), Str(<<"2","0","2","4","-","0","1","-","0","5">>)>>) >>)
    \* two rows on one date, and the first row a second time
 @@ ("ties.csv" :> <<
        Col("Amount", <<Num(2500), Num(8000), Num(2500)>>),
        Col("Description", <<Str(<<"U","b","e","r"," ","E","a","t","s"," ","o","r","d","e","r">>),
                             Str(<<"Z","e","l","l","e"," ","t","r","a","n","s","f","e","r">>),
                             Str(<<"U","b","e","r"," ","E","a","t","s"," ","o","r","d","e","r">>)>>),
        Col("Date", <<Str(<<"2","0","2","4","-","0","1","-","1","0">>), Str(<<"2","0","2","4","-","0","1","-","1","0">>),
                      Str(<<"2","0","2","4","-","0","1","-","1","0">>)>>) >>)
    \* a row whose description cell is empty
 @@ ("blankdesc.csv" :> <<
        Col("Description", <<Str(<<"S","p","o","t","i","f","y">>), NaN>>),
        Col("Amount", <<Num(999), Num(1200)>>),
        Col("Date", <<Str(<<"2","0","2","4","-","0","3","-","1","5">>), Str(<<"2","0","2","4","-","0","1","-","1","2">>)>>) >>)
    \* a header line and no rows
 @@ ("empty.csv" :> <<
        Col("Date", <<>>), Col("Description", <<>>), Col("Amount", <<>>) >>)
    \* the layout Date, Description, Amount
 @@ ("typical.csv" :> <<
        Col("Date", <<Str(<<"2","0","2","4","-","0","1","-","0","5">>), Str(<<"2","0","2","4","-","0","2","-","0","1">>)>>),
        Col("Description", <<Str(<<"T","r","a","d","e","r"," ","J","o","e","s">>), Str(<<"Z","e","l","l","e"," ","t","r","a","n","s","f","e","r">>)>>),
        Col("Amount", <<Num(4520), Num(10000)>>) >>)
    \* no column of dates
 @@ ("nodate.csv" :> <<
        Col("Amount", <<Num(700)>>),
        Col("Description", <<Str(<<"R","e","n","t">>)>>) >>)
    \* neither dates nor amounts
 @@ ("notes.csv" :> <<
        Col("Note", <<Str(<<"R","e","n","t">>), Str(<<"M","e","m","o">>)>>) >>)
    \* an amount that does not parse
 @@ ("badamount.csv" :> <<
        Col("Amount", <<Str(<<"$","1","2",".","5","0">>), Str(<<"1",".","2",".","3">>)>>),
        Col("Description", <<Str(<<"N","e","t","f","l","i","x">>), Str(<<"S","p","o","t","i","f","y">>)>>),
        Col("Date", <<Str(<<"2","0","2","4","-","0","2","-","0","1">>), Str(<<"2","0","2","4","-","0","3","-","1","5">>)>>) >>)

\* a path at which there is no file
MissingFile == "missing.csv"

\* the paths process_files is called with: five files read_csv accepts and
\* two it raises on
FilePool ==
    {"bankA.csv", "bankB.csv", "ties.csv", "blankdesc.csv", "empty.csv",
     "typical.csv", "notes.csv"}

\* one column of ISO dates, one of plain numbers and unrelated text columns
LayoutColumns == <<
    Col("Date", <<Str(<<"2","0","2","4","-","0","1","-","0","5">>), Str(<<"2","0","2","4","-","0","1","-","1","0">>)>>),
    Col("Amount", <<Num(4520), Num(3000)>>),
    Col("Payee", <<Str(<<"T","r","a","d","e","r"," ","J","o","e","s">>), Str(<<"S","h","e","l","l"," ","G","a","s">>)>>),
    Col("Memo", <<Str(<<"n","o","t","e">>), Str(<<"M","e","m","o">>)>>) >>

\* every ordering of the date and the number column among 0, 1 or 2 text columns
Layouts ==
    {o \in UNION {[1..n -> 1..Len(LayoutColumns)] : n \in 2..Len(LayoutColumns)} :
        /\ \A i, j \in DOMAIN o : i # j => o[i] # o[j]
        /\ {1, 2} \subseteq Range(o)}

LayoutTable(o) == Tuple([i \in DOMAIN o |-> LayoutColumns[o[i]]])

RECURSIVE JoinNames(_)
JoinNames(df) ==
    IF df = <<>> THEN ".csv"
    ELSE df[1].name \o (IF Len(df) > 1 THEN "," ELSE "") \o JoinNames(Tail(df))

LayoutFiles == {JoinNames(LayoutTable(o)) : o \in Layouts}

\* pd.read_csv(filepath): the table of the file, if there is one
file_exists(filepath) == filepath \in DOMAIN StatementFiles \cup LayoutFiles

open_file(filepath) ==
    IF filepath \in DOMAIN StatementFiles THEN StatementFiles[filepath]
    ELSE LayoutTable(CHOOSE o \in Layouts : JoinNames(LayoutTable(o)) = filepath)

\* read_csv(filepath), line by line
read_file(filepath) ==
    IF ~ file_exists(filepath)
    THEN [ok |-> FALSE, error |-> "FileNotFoundError",
          date_col |-> "", amount_col |-> "", rows |-> <<>>]
    ELSE read_table(open_file(filepath))

\* every path of the model with what read_csv does on it, computed once
AllPaths == DOMAIN StatementFiles \cup LayoutFiles \cup {MissingFile}

csv_results == {<<p, read_file(p)>> : p \in AllPaths}

\* read_csv(filepath): the frame it returns, or the error it raises
read_csv(filepath) == (CHOOSE e \in csv_results : e[1] = filepath)[2]

\* the texts of the files' cells with their categories, computed once
FileTexts ==
    {c.s : c \in {x \in UNION {UNION {Range(col.cells) : col \in Range(StatementFiles[p])} :
                                    p \in DOMAIN StatementFiles} : x.t = "str"}}

category_results == {<<d, categorize(d)>> : d \in FileTexts}

\* categorize_transaction(description)
categorize_transaction(description) ==
    IF description \in FileTexts
    THEN (CHOOSE e \in category_results : e[1] = description)[2]
    ELSE categorize(description)

----------------------------------------------------------------------------
(* process_files                                                           *)

\* self.data: None, or a DataFrame with its column names and its rows
None == [isNone |-> TRUE, columns |-> <<>>, rows |-> <<>>]
DataFrame(columns, rows) == [isNone |-> FALSE, columns |-> columns, rows |-> rows]

\* lines 71-77 with the first failing file ending the loop and the batch
RECURSIVE frames_until_error(_)
frames_until_error(filepaths) ==
    IF filepaths = <<>> \/ ~ read_csv(Head(filepaths)).ok THEN <<>>
    ELSE <<read_csv(Head(filepaths)).rows>> \o frames_until_error(Tail(filepaths))

\* lines 71-77: dfs, the frames of the files read_csv accepts, in path order
RECURSIVE frames(_)
frames(filepaths) ==
    IF filepaths = <<>> THEN <<>>
    ELSE (IF read_csv(Head(filepaths)).ok THEN <<read_csv(Head(filepaths)).rows>>
          ELSE <<>>)
         \o frames(Tail(filepaths))

\* line 77: one line printed per file read_csv raised on
error_lines(filepaths) == SelectSeq(filepaths, LAMBDA p : ~ read_csv(p).ok)

\* line 79 raising whenever some file failed
some_file_failed(filepaths) == Len(frames(filepaths)) < Len(filepaths)

\* line 79: if not dfs
no_valid_files(filepaths) == frames(filepaths) = <<>>

\* line 83: pd.concat(dfs, ignore_index=True)
RECURSIVE concat(_)
concat(dfs) == IF dfs = <<>> THEN <<>> ELSE Head(dfs) \o concat(Tail(dfs))

\* line 86 left out
keep_duplicates(rows) == rows

\* line 86: drop_duplicates() keeps the first of the rows equal in every column
drop_duplicates(rows) ==
    LET keep == {i \in 1..Len(rows) : \A j \in 1..(i - 1) : rows[j] # rows[i]}
        RECURSIVE pick(_)
        pick(i) ==
            IF i > Len(rows) THEN <<>>
            ELSE (IF i \in keep THEN <<rows[i]>> ELSE <<>>) \o pick(i + 1)
    IN  pick(1)

\* the order of the sort key: NaT after every date (na_position='last')
DateLeq(a, b) == b.t = "nan" \/ (a.t = "num" /\ a.n <= b.n)

\* the orders of rows[i], i in idx, that ascend by date
RECURSIVE ascending_orders(_, _)
ascending_orders(rows, idx) ==
    IF idx = {} THEN {<<>>}
    ELSE LET least == {i \in idx : \A j \in idx : DateLeq(rows[i].date, rows[j].date)}
         IN  UNION {{<<rows[i]>> \o rest : rest \in ascending_orders(rows, idx \ {i})} :
                        i \in least}

\* line 89 left out
unsorted(rows) == {rows}

\* line 89: sort_values('date') with the default kind='quicksort', which is
\* not a stable sort: rows of equal date may come out in any order
sort_values(rows) == ascending_orders(rows, 1..Len(rows))

\* line 92: .apply(self.categorize_transaction) raises AttributeError on NaN
apply_raises(rows) == \E i \in 1..Len(rows) : rows[i].description.t # "str"

add_categories(rows) ==
    Tuple([i \in 1..Len(rows) |->
        [rows[i] EXCEPT !.category = categorize_transaction(rows[i].description.s)]])

----------------------------------------------------------------------------
(* generate_insights                                                       *)

\* Series.sum(): NaN is skipped
RECURSIVE sum_amount(_)
sum_amount(rows) ==
    IF rows = <<>> THEN 0
    ELSE (IF Head(rows).amount.t = "num" THEN Head(rows).amount.n ELSE 0)
         + sum_amount(Tail(rows))

\* dt.to_period('M')
to_period_M(date) == date.n \div 100

\* groupby(key)['amount'].sum(): the keys present, each with the sum of its
\* rows; a row whose key is NaN / NaT is in no group
monthly_sums(rows) ==
    LET dated == SelectSeq(rows, LAMBDA r : r.date.t = "num")
    IN  [k \in {to_period_M(r.date) : r \in Range(dated)} |->
            sum_amount(SelectSeq(dated, LAMBDA r : to_period_M(r.date) = k))]

\* line 106 with the rows categorised 'other' left out of the grouping
category_sums_without_other(rows) ==
    [k \in {r.category : r \in Range(rows)} \ {"other"} |->
        sum_amount(SelectSeq(rows, LAMBDA r : r.category = k))]

category_sums(rows) ==
    [k \in {r.category : r \in Range(rows)} |->
        sum_amount(SelectSeq(rows, LAMBDA r : r.category = k))]

merchant_sums(rows) ==
    LET named == SelectSeq(rows, LAMBDA r : r.description.t = "str")
    IN  [k \in {r.description.s : r \in Range(named)} |->
            sum_amount(SelectSeq(named, LAMBDA r : r.description.s = k))]

RECURSIVE sum_values(_)
sum_values(f) ==
    IF DOMAIN f = {} THEN 0
    ELSE LET k == CHOOSE k \in DOMAIN f : TRUE
         IN  f[k] + sum_values([x \in DOMAIN f \ {k} |-> f[x]])

\* .mean() of the monthly sums, as the fraction sum / count; NaN for no month
mean(f) == [sum |-> sum_values(f), count |-> Cardinality(DOMAIN f)]

\* nlargest(5)
TopN == 5

\* groupby sorts its keys; nlargest keeps the first of equal sums
RECURSIVE nlargest(_, _, _)
nlargest(n, f, keys) ==
    IF n = 0 \/ keys = {} THEN <<>>
    ELSE LET best == {k \in keys : \A j \in keys : f[k] >= f[j]}
             first == CHOOSE k \in best : \A j \in best : j = k \/ StrLess(k, j)
         IN  <<[description |-> first, amount |-> f[first]]>>
             \o nlargest(n - 1, f, keys \ {first})

\* lines 101-111
insights_of(rows) ==
    [total_spending |-> sum_amount(rows),
     avg_monthly_spending |-> mean(monthly_sums(rows)),
     spending_by_category |-> category_sums(rows),
     top_merchants |-> nlargest(TopN, merchant_sums(rows), DOMAIN merchant_sums(rows)),
     monthly_trend |-> monthly_sums(rows)]

NoInsights ==
    [total_spending |-> 0,
     avg_monthly_spending |-> [sum |-> 0, count |-> 0],
     spending_by_category |-> [k \in {} |-> 0],
     top_merchants |-> <<>>,
     monthly_trend |-> [k \in {} |-> 0]]

----------------------------------------------------------------------------
(* The analyzer as a state machine: data is self.data; op, arg, outcome,   *)
(* ret and printed record the last call, its arguments, how it ended, what *)
(* it returned and the lines it printed.                                   *)

NoArg == [filepaths |-> <<>>, description |-> <<>>, filepath |-> ""]

NoFrame == [ok |-> FALSE, error |-> "", date_col |-> "", amount_col |-> "", rows |-> <<>>]

NoRet == [data |-> None, insights |-> NoInsights, category |-> "", frame |-> NoFrame]

\* SpendingAnalyzer(): lines 10-20
Init ==
    /\ data = None
    /\ op = "__init__"
    /\ arg = NoArg
    /\ outcome = "ok"
    /\ ret = NoRet
    /\ printed = <<>>

\* the lists of at most MaxFiles paths
PathLists == UNION {[1..n -> FilePool] : n \in 0..MaxFiles}

\* process_files(filepaths): lines 69-94
ProcessFiles ==
    \E filepaths \in PathLists :
        /\ op' = "process_files"
        /\ arg' = [NoArg EXCEPT !.filepaths = filepaths]
        /\ printed' = error_lines(filepaths)
        /\ IF no_valid_files(filepaths)
           THEN /\ outcome' = "ValueError: No valid files to process"
                /\ ret' = NoRet
                /\ UNCHANGED data
           ELSE \E sorted \in sort_values(drop_duplicates(concat(frames(filepaths)))) :
                    IF apply_raises(sorted)
                    THEN \* self.data was assigned on lines 83-89
                         /\ data' = DataFrame(<<"date", "description", "amount">>, sorted)
                         /\ outcome' = "AttributeError"
                         /\ ret' = NoRet
                    ELSE /\ data' = DataFrame(<<"date", "description", "amount", "category">>,
                                              add_categories(sorted))
                         /\ outcome' = "ok"
                         /\ ret' = [NoRet EXCEPT !.data = data']

\* generate_insights(): lines 96-113
GenerateInsights ==
    /\ op' = "generate_insights"
    /\ arg' = NoArg
    /\ printed' = <<>>
    /\ UNCHANGED data
    /\ IF data.isNone
       THEN /\ outcome' = "ValueError: No data available. Please process files first."
            /\ ret' = NoRet
       ELSE IF "category" \notin Range(data.columns)
       THEN /\ outcome' = "KeyError: 'category'"
            /\ ret' = NoRet
       ELSE /\ outcome' = "ok"
            /\ ret' = [NoRet EXCEPT !.insights = insights_of(data.rows)]

Next == ProcessFiles \/ GenerateInsights

Spec == Init /\ [][Next]_vars

----------------------------------------------------------------------------
(* The two pure methods, each called once on a new analyzer with an        *)
(* argument drawn from the sets below.                                      *)

DescAlphabet == {"g", "a", "s", "G", "A", "S", " "}

NamedDescriptions == {
    <<"W","h","o","l","e"," ","F","o","o","d","s"," ","M","a","r","k","e","t"," ","#","1","2","3">>, <<"U","b","e","r"," ","E","a","t","s"," ","o","r","d","e","r">>, <<"S","h","e","l","l"," ","G","a","s">>, <<"N","e","t","f","l","i","x">>,
    <<"T","r","a","d","e","r"," ","J","o","e","s">>, <<"S","p","o","t","i","f","y">>, <<"Z","e","l","l","e"," ","t","r","a","n","s","f","e","r">>, <<"R","e","n","t">>, <<"G","A","S">>,
    <<"2","0","2","4","-","0","1","-","0","5">>, <<"U","B","E","R"," ","T","R","I","P">>, <<"G","a","s"," ","a","n","d"," ","E","l","e","c","t","r","i","c">>, <<"T","a","r","g","e","t"," ","S","t","o","r","e">>,
    <<"C","o","f","f","e","e"," ","M","a","r","k","e","t">>, <<"C","i","t","y"," ","W","a","t","e","r"," ","D","e","p","t">> }

Descriptions ==
    NamedDescriptions \cup UNION {[1..n -> DescAlphabet] : n \in 0..MaxDescLen}

InitFn ==
    /\ data = None
    /\ outcome = "pending"
    /\ ret = NoRet
    /\ printed = <<>>
    /\ \/ /\ op = "categorize_transaction"
          /\ arg \in {[NoArg EXCEPT !.description = d] : d \in Descriptions}
       \/ /\ op = "read_csv"
          /\ arg \in {[NoArg EXCEPT !.filepath = p] : p \in AllPaths}

\* categorize_transaction(description): lines 60-67
CategorizeTransaction ==
    /\ op = "categorize_transaction" /\ outcome = "pending"
    /\ outcome' = "ok"
    /\ ret' = [NoRet EXCEPT !.category = categorize_transaction(arg.description)]
    /\ UNCHANGED <<data, op, arg, printed>>

\* read_csv(filepath): lines 22-58
ReadCsv ==
    /\ op = "read_csv" /\ outcome = "pending"
    /\ outcome' = IF read_csv(arg.filepath).ok THEN "ok" ELSE read_csv(arg.filepath).error
    /\ ret' = [NoRet EXCEPT !.frame = read_csv(arg.filepath)]
    /\ UNCHANGED <<data, op, arg, printed>>

NextFn == CategorizeTransaction \/ ReadCsv

SpecFn == InitFn /\ [][NextFn]_vars

----------------------------------------------------------------------------
(* What the claims are stated with.                                        *)

Triple(r) == <<r.date, r.description, r.amount>>

Triples(rows) == {Triple(rows[i]) : i \in 1..Len(rows)}

\* the paths of the last process_files call that read_csv accepted
Accepted == {p \in Range(arg.filepaths) : read_csv(p).ok}

\* the rows of the accepted files
AcceptedTriples == UNION {Triples(read_csv(p).rows) : p \in Accepted}

NoValidFilesError == "ValueError: No valid files to process"
NoDataError == "ValueError: No data available. Please process files first."

Successful == op = "process_files" /\ outcome = "ok"

----------------------------------------------------------------------------
\* C1: categorize_transaction returns the first category, in the order
\* groceries, dining, transport, shopping, utilities, entertainment, health,
\* one of whose keywords is a substring of the lower-cased description, and
\* 'other' when there is none; a description matching only the keyword 'gas'
\* is transport, in whatever case it is written, and 'Uber Eats order' is
\* dining.
DeclarationOrder ==
    <<"groceries", "dining", "transport", "shopping", "utilities", "entertainment",
      "health">>

KeywordsOf(name) ==
    UNION {Range(c.keywords) : c \in {x \in Range(categories) : x.name = name}}

MatchedKeywords(d) ==
    {k \in UNION {KeywordsOf(DeclarationOrder[i]) : i \in 1..Len(DeclarationOrder)} :
        Contains(k, lower(d))}

FirstMatch(d) ==
    LET hits == {i \in 1..Len(DeclarationOrder) :
                    KeywordsOf(DeclarationOrder[i]) \cap MatchedKeywords(d) # {}}
    IN  IF hits = {} THEN "other"
        ELSE DeclarationOrder[CHOOSE i \in hits : \A j \in hits : i <= j]

T_C1_FirstCategoryWins ==
    (op = "categorize_transaction" /\ outcome = "ok") =>
        /\ ret.category = FirstMatch(arg.description)
        /\ MatchedKeywords(arg.description) = {<<"g","a","s">>} => ret.category = "transport"
        /\ arg.description \in {<<"G","A","S">>, <<"G","a","s">>, <<"g","a","s">>, <<"S","h","e","l","l"," ","G","a","s">>}
                => ret.category = "transport"
        /\ arg.description = <<"U","b","e","r"," ","E","a","t","s"," ","o","r","d","e","r">> => ret.category = "dining"
        /\ arg.description = <<"R","e","n","t">> => ret.category = "other"

W_C1_GasIsTransport ==
    /\ op = "categorize_transaction" /\ outcome = "ok"
    /\ arg.description = <<"G","A","S">>
    /\ MatchedKeywords(arg.description) = {<<"g","a","s">>}
    /\ ret.category = "transport"

----------------------------------------------------------------------------
\* C2: the frame process_files leaves holds no two rows with the same
\* (date, description, amount), and after a successful call every row that
\* an accepted file produced, once or several times, is in it exactly once.
T_C2_NoDuplicateTriples ==
    /\ ~ data.isNone =>
            \A i, j \in 1..Len(data.rows) :
                i # j => Triple(data.rows[i]) # Triple(data.rows[j])
    /\ Successful =>
            \A t \in AcceptedTriples :
                Cardinality({i \in 1..Len(ret.data.rows) : Triple(ret.data.rows[i]) = t}) = 1

\* bankA.csv and bankB.csv both hold (2024-01-05, Trader Joes, 45.20)
W_C2_SharedRowOnce ==
    /\ Successful
    /\ arg.filepaths = <<"bankA.csv", "bankB.csv">>
    /\ Len(concat(frames(arg.filepaths))) = 4
    /\ Len(data.rows) = 3

----------------------------------------------------------------------------
\* C3: after a successful process_files call the rows ascend by date:
\* a.date <= b.date for every two adjacent rows a, b.
T_C3_SortedByDate ==
    (~ data.isNone /\ (Successful \/ op = "generate_insights")) =>
        \A i \in 1..(Len(data.rows) - 1) :
            /\ data.rows[i].date.t = "num" /\ data.rows[i + 1].date.t = "num"
            /\ data.rows[i].date.n <= data.rows[i + 1].date.n

\* bankB.csv's rows come latest date first
W_C3_SortedOutOfOrderInput ==
    /\ Successful
    /\ arg.filepaths = <<"bankB.csv", "bankA.csv">>
    /\ concat(frames(arg.filepaths))[1].date.n > concat(frames(arg.filepaths))[2].date.n
    /\ Len(data.rows) = 3

----------------------------------------------------------------------------
\* C4: in a batch with at least one accepted file, the files read_csv raises
\* on are skipped (one printed line each) and do not abort the batch: the
\* call does not end with the no-valid-files error, it can only be stopped by
\* a row of an accepted file, and the frame it builds holds the rows of the
\* accepted files and nothing else.
T_C4_FailedFilesSkipped ==
    (op = "process_files" /\ Accepted # {}) =>
        /\ outcome \in {"ok", "AttributeError"}
        /\ outcome = "AttributeError" =>
                \E p \in Accepted : \E t \in Triples(read_csv(p).rows) : t[2].t # "str"
        /\ Range(printed) = Range(arg.filepaths) \ Accepted
        /\ ~ data.isNone /\ Triples(data.rows) = AcceptedTriples
        /\ outcome = "ok" => ret.data = data

W_C4_BadFilesInGoodBatch ==
    /\ Successful
    /\ arg.filepaths = <<"typical.csv", "bankA.csv">>
    /\ ~ read_csv("typical.csv").ok
    /\ Len(ret.data.rows) = 2

----------------------------------------------------------------------------
\* C5: process_files ends with the no-valid-files error exactly when read_csv
\* accepted none of the paths (an empty list included), and it returns no
\* frame then.
T_C5_NoValidFilesExactly ==
    op = "process_files" =>
        /\ outcome = NoValidFilesError <=> \A p \in Range(arg.filepaths) : ~ read_csv(p).ok
        /\ outcome = NoValidFilesError => ret.data = None

W_C5_AllFilesFailed ==
    /\ op = "process_files"
    /\ arg.filepaths = <<"typical.csv", "notes.csv">>
    /\ outcome = NoValidFilesError

----------------------------------------------------------------------------
\* C6: generate_insights ends with the no-data error whenever self.data is
\* unset or holds no rows.
CE_C6_EmptyOrUnsetRaises ==
    (op = "generate_insights" /\ (data.isNone \/ Len(data.rows) = 0)) =>
        outcome = NoDataError

----------------------------------------------------------------------------
\* C7: in the report generate_insights returns, the values of
\* spending_by_category add up to total_spending, every row counting in
\* exactly one of the eight categories.
AllCategories == Range(DeclarationOrder) \cup {"other"}

T_C7_CategoriesPartitionTotal ==
    (op = "generate_insights" /\ outcome = "ok") =>
        /\ sum_values(ret.insights.spending_by_category) = ret.insights.total_spending
        /\ ret.insights.total_spending = sum_amount(data.rows)
        /\ DOMAIN ret.insights.spending_by_category \subseteq AllCategories
        /\ \A i \in 1..Len(data.rows) :
                data.rows[i].category \in DOMAIN ret.insights.spending_by_category

W_C7_SeveralCategories ==
    /\ op = "generate_insights" /\ outcome = "ok"
    /\ "other" \in DOMAIN ret.insights.spending_by_category
    /\ Cardinality(DOMAIN ret.insights.spending_by_category) >= 3
    /\ ret.insights.total_spending > 0

----------------------------------------------------------------------------
\* C8: for a file with one column of ISO dates, one column of plain numbers
\* and any number of text columns, in any order, read_csv takes the date
\* column as the date and the number column as the amount.
CE_C8_ColumnsFoundInAnyOrder ==
    (op = "read_csv" /\ outcome # "pending" /\ arg.filepath \in LayoutFiles) =>
        /\ ret.frame.date_col = "Date"
        /\ ret.frame.amount_col = "Amount"
        /\ outcome = "ok"

----------------------------------------------------------------------------
\* C9: self.data changes only in a successful process_files call, which
\* leaves in it rows of that call's files only; generate_insights leaves it
\* unchanged.
CE_C9_OnlySuccessfulCallsReplace ==
    [][/\ data' # data => (op' = "process_files" /\ outcome' = "ok")
       /\ (op' = "process_files" /\ outcome' = "ok") =>
            Triples(data'.rows) \subseteq
                UNION {Triples(read_csv(p).rows) : p \in Range(arg'.filepaths)}
       /\ op' = "generate_insights" => data' = data]_vars

----------------------------------------------------------------------------
\* C10: the sort of process_files is stable: rows of equal date keep the
\* order they had after concatenation and deduplication.
PositionIn(rows, t) == CHOOSE i \in 1..Len(rows) : Triple(rows[i]) = t

CE_C10_StableSort ==
    Successful =>
        LET before == drop_duplicates(concat(frames(arg.filepaths)))
        IN  \A i, j \in 1..Len(data.rows) :
                (i < j /\ data.rows[i].date = data.rows[j].date) =>
                    PositionIn(before, Triple(data.rows[i]))
                        < PositionIn(before, Triple(data.rows[j]))

====
